---- MODULE Spec2Model ----
(***************************************************************************)
(* go-kafkify: the transactional outbox, its relay (outbox processor), the  *)
(* Kafka publication of outbox events and the consumer of the gRPC service *)
(* (startKafkaConsumer, processKafkaMessage).                              *)
(*                                                                         *)
(* The committed database state is a set of tables (resources, tasks,      *)
(* outbox_events).  Request handlers write through a transaction whose     *)
(* writes become visible only on Commit.  Each relay instance runs         *)
(* processOutboxEvents: SELECT the pending events, then for each event     *)
(* publishToKafka and, on success, markEventProcessed.  Every database or  *)
(* broker round trip is a separate step, so that other instances, crashes  *)
(* and failures interleave between them.  Each consumer instance fetches   *)
(* a message of a partition it is assigned, runs processKafkaMessage in    *)
(* one transaction and, when that returned nil, commits the offset.        *)
(***************************************************************************)
EXTENDS Integers, Sequences, FiniteSets, TLC

\* ------------------------------------------------------------------ bounds

\* Outbox events (transactions) the environment produces in one behaviour.
MaxEvents == 2
\* Faults in one behaviour: failing round trips (query, publish, mark, exec,
\* commit), process crashes and rebalances of the consumer group.
MaxFaults == 1
\* The "LIMIT 100" of the polling query, scaled down so that the pending
\* rows can exceed one batch.
BatchLimit == 2

\* ----------------------------------------------------------- value domains

\* processed_at IS NULL
NULL == 0

\* Relay instances (the service can be scaled horizontally).
Relays == {1, 2}

\* Concurrent request handlers.
Handlers == {1, 2}

\* The partitions of a topic created with several partitions ("Multiple
\* partitions per topic for parallelism").
Partitions == { 0, 1 }

\* The handlers that write through the outbox: the REST service's create,
\* update and delete of a resource and the gRPC service's ProcessTask.
Ops == { "createResource", "updateResource", "deleteResource", "ProcessTask" }

\* Decoded request bodies: a Resource for create and update, nothing for
\* delete, a ProcessTaskRequest for ProcessTask.
Bodies(op) ==
    CASE op \in { "createResource", "updateResource" } ->
            { [ name |-> "X", status |-> "active" ],
              [ name |-> "Y", status |-> "archived" ] }
      [] op = "deleteResource" -> { "none" }
      [] op = "ProcessTask" -> { [ resource_id |-> "res-1", action |-> "process" ] }

\* An id in a request URL that no resource has.
NoSuchId == 0

\* What the producing transactions put into an outbox row:
\* <<aggregate_id, event_type, payload>>.
EventInputs ==
    { <<"agg-1", "resource.updated", "{name:X}">>,
      <<"agg-2", "task.process", "{action:A}">> }

\* Instances of the gRPC service in the consumer group "grpc-service-group".
Consumers == { 1, 2 }

\* GroupTopics: the topics the consumer subscribes to.
GroupTopics == { "resource.created", "resource.updated", "resource.deleted" }

\* The topic partitions the group's offsets are kept for.
TopicPartitions == GroupTopics \X Partitions

\* A partition the group has committed no offset for.
NoOffset == -1

\* A partition that is assigned to no member of the group.
NoMember == 0

\* What the REST service's handlers put into an outbox row for a resource:
\* <<aggregate_id, event_type, payload>>; the payload carries the resource id.
ResourceEvents ==
    { <<"r1", "resource.created", [ id |-> "r1", name |-> "X", status |-> "active" ]>>,
      <<"r1", "resource.updated", [ id |-> "r1", name |-> "Y", status |-> "active" ]>> }

\* A payload above the size a kafka.Writer accepts for one message (the JSON
\* of a resource whose description is several megabytes long).
Oversized == "{description:<2MB>}"

\* Messages of the subscribed topics whose payload has no "id".
InvalidEvents ==
    { <<"r2", "resource.created", [ name |-> "Z" ]>> }

VARIABLES
    outbox,       \* outbox_events: sequence of rows, in insertion order
    resources,    \* resources table: id -> row
    tasks,        \* tasks table: id -> row
    clock,        \* time.Now()
    nextId,       \* uuid.New(): ids handed out so far
    relay,        \* per relay instance: pc, the SELECTed events, loop index
    broker,       \* Kafka: the messages acknowledged, in acknowledgement order
    txn,          \* per request handler: the open transaction
    pubLog,       \* history: for each broker message, the event published
    failed,       \* history: ids of events for which a publish failed
    retriedOk,    \* history: ids published and marked in a cycle after a failed publish
    crashedAt,    \* history: ids published but not yet marked when a relay died
    transitions,  \* history: id -> number of NULL -> non-NULL changes
    txCount,      \* history: transactions begun so far
    bizCommitted, \* history: transactions whose business write is committed
    aborted,      \* history: <<transaction, step that failed>> of each rollback
    origin,       \* history: outbox id -> transaction that inserted it
    topicPartitions, \* broker metadata: the partitions of every topic
    faults,       \* history: failed round trips and crashes so far
    consumer,     \* per consumer instance: pc, reader positions, open transaction
    owner,        \* consumer group: partition number -> the member it is assigned to
    committed,    \* consumer group: topic partition -> committed offset
    deliveries,   \* history: every call of processKafkaMessage and its outcome
    responses,    \* history: transaction -> what the handler answered its caller
    cancelled,    \* the context of the gRPC service's main is cancelled
    cycleResult   \* history: what the last call of processOutboxEvents returned

vars == << outbox, resources, tasks, clock, nextId, relay, broker, txn, pubLog,
           failed, retriedOk, crashedAt, transitions, txCount, bizCommitted,
           aborted, origin, topicPartitions, faults, consumer, owner, committed,
           deliveries, responses, cancelled,
           cycleResult >>

storeVars == << resources, tasks, txn, txCount, bizCommitted, aborted, origin,
               responses >>
relayVars == << relay, broker, pubLog, failed, retriedOk, crashedAt, transitions,
               topicPartitions >>
consumerVars == << consumer, owner, committed, deliveries >>

\* ------------------------------------------------------------------ helpers

Ids == 1 .. nextId

\* The row of outbox_events with primary key id (the rows hold distinct ids).
RowOf(ob, id) == ob[CHOOSE i \in DOMAIN ob : ob[i].id = id]

RowIds(ob) == { ob[i].id : i \in DOMAIN ob }

\* --------------------------------------------------------- outbox SQL

\* INSERT INTO outbox_events (id, aggregate_id, event_type, payload, created_at)
OutboxRow(eventID, aggregateID, eventType, payload, now) ==
    [ id |-> eventID, aggregate_id |-> aggregateID, event_type |-> eventType,
      payload |-> payload, created_at |-> now, processed_at |-> NULL ]

\* WHERE processed_at IS NULL
Pending(ob) == { i \in DOMAIN ob : ob[i].processed_at = NULL }

\* ORDER BY created_at ASC over the rows at the positions in S.
RECURSIVE OrderByCreatedAt(_, _)
OrderByCreatedAt(ob, S) ==
    IF S = {} THEN << >>
    ELSE LET i == CHOOSE k \in S :
                    \A j \in S : \/ ob[k].created_at < ob[j].created_at
                                 \/ /\ ob[k].created_at = ob[j].created_at
                                    /\ k <= j
         IN  << ob[i] >> \o OrderByCreatedAt(ob, S \ {i})

\* LIMIT n
Limit(s, n) == IF Len(s) <= n THEN s ELSE SubSeq(s, 1, n)

\* SELECT id, aggregate_id, event_type, payload, created_at: the OutboxEvent
\* the relay scans a row into.
ScanEvent(row) ==
    [ ID |-> row.id, AggregateID |-> row.aggregate_id, EventType |-> row.event_type,
      Payload |-> row.payload, CreatedAt |-> row.created_at ]

\* The polling query without its ORDER BY: the rows come in table order.
SelectPendingUnordered(ob) ==
    LET rows == Limit(SelectSeq(ob, LAMBDA row : row.processed_at = NULL), BatchLimit)
    IN  [ i \in DOMAIN rows |-> ScanEvent(rows[i]) ]

\* The polling query without its WHERE clause.
SelectAll(ob) ==
    LET rows == Limit(OrderByCreatedAt(ob, DOMAIN ob), BatchLimit)
    IN  [ i \in DOMAIN rows |-> ScanEvent(rows[i]) ]

\* SELECT ... FROM outbox_events WHERE processed_at IS NULL
\* ORDER BY created_at ASC LIMIT 100
SelectPending(ob) ==
    LET rows == Limit(OrderByCreatedAt(ob, Pending(ob)), BatchLimit)
    IN  [ i \in DOMAIN rows |-> ScanEvent(rows[i]) ]

\* The update setting created_at along with processed_at.
MarkEventRestamped(ob, eventID, now) ==
    [ i \in DOMAIN ob |->
        IF ob[i].id = eventID
        THEN [ ob[i] EXCEPT !.processed_at = now, !.created_at = now ] ELSE ob[i] ]

\* The update without its WHERE clause: every row is marked.
MarkAllRows(ob, eventID, now) ==
    [ i \in DOMAIN ob |-> [ ob[i] EXCEPT !.processed_at = now ] ]

\* The update with a WHERE clause that matches no row: Exec reports no error.
MarkNoRow(ob, eventID, now) == ob

\* UPDATE outbox_events SET processed_at = $1 WHERE id = $2
MarkEventProcessed(ob, eventID, now) ==
    [ i \in DOMAIN ob |->
        IF ob[i].id = eventID THEN [ ob[i] EXCEPT !.processed_at = now ] ELSE ob[i] ]

\* --------------------------------------------------------- Kafka writer

\* kafka.WriterConfig{Topic: event.EventType, ...}
WriterTopic(event) == event.EventType

\* The message keyed by the event's type instead of its aggregate.
KafkaMessageKeyedByType(event) ==
    [ Key |-> event.EventType,
      Value |-> event.Payload,
      Headers |-> [ event_id |-> event.ID, event_type |-> event.EventType ] ]

\* kafka.Message{Key, Value, Headers}
KafkaMessage(event) ==
    [ Key |-> event.AggregateID,
      Value |-> event.Payload,
      Headers |-> [ event_id |-> event.ID, event_type |-> event.EventType ] ]

\* Balancer: &kafka.LeastBytes{}.  The balancer routes to a partition that has
\* received the least bytes from this writer and does not read the key.  The
\* writer is created for the one message, so every partition has received
\* nothing: each of them is a least-loaded one.
LeastBytes(msg, written) ==
    { p \in DOMAIN written : \A q \in DOMAIN written : written[p] <= written[q] }

\* kafka.NewWriter: the balancer's byte counters of a new writer.
NewWriterBytes(partitions) == [ p \in partitions |-> 0 ]

\* What the broker appends on an acknowledged write.
BrokerRecord(event, p) ==
    [ topic |-> WriterTopic(event), partition |-> p, message |-> KafkaMessage(event) ]

\* ------------------------------------------------------------------ Init

\* retry (history): the selected events whose publish had failed before.
IdleRelay == [ pc |-> "idle", events |-> << >>, idx |-> 0, retry |-> {} ]

\* A consumer instance that is not running.  pos is the reader's next offset
\* in each assigned partition, cur the message FetchMessage returned, d
\* (history) the number of the delivery; row and ob are the task row and the
\* outbox row the open transaction has written and not yet committed.
DownConsumer ==
    [ pc |-> "down", pos |-> [ tp \in TopicPartitions |-> 0 ],
      cur |-> [ tp |-> << "", 0 >>, off |-> 0 ], d |-> 0, row |-> << >>, ob |-> << >> ]

\* No transaction is open.  tx (history) numbers the transaction, op is the
\* handler, id the resource or task it is about, body the decoded request and
\* writes what the transaction has executed and not yet committed.
NoTxn == [ pc |-> "idle", tx |-> 0, op |-> "none", id |-> 0, body |-> "none",
           writes |-> << >> ]

\* The rows n producing transactions have committed, one after the other,
\* each with one of the event inputs.
PendingRows(n, ins) ==
    [ i \in 1 .. n |-> OutboxRow(i, ins[i][1], ins[i][2], ins[i][3], i) ]

\* The state after start-up with the outbox rows ob and topics of the
\* partitions parts: every relay waits for its first tick, no request is open.
InitWith(ob, parts) ==
    /\ outbox = ob
    /\ resources = << >>
    /\ tasks = << >>
    /\ clock = Len(ob) + 1
    /\ nextId = Len(ob)
    /\ relay = [ r \in Relays |-> IdleRelay ]
    /\ broker = << >>
    /\ txn = [ h \in Handlers |-> NoTxn ]
    /\ pubLog = << >>
    /\ failed = {}
    /\ retriedOk = {}
    /\ crashedAt = {}
    /\ transitions = [ i \in DOMAIN ob |-> 0 ]
    /\ txCount = 0
    /\ bizCommitted = {}
    /\ aborted = {}
    /\ origin = << >>
    /\ topicPartitions = parts
    /\ faults = 0
    /\ consumer = [ c \in Consumers |-> DownConsumer ]
    /\ owner = [ p \in Partitions |-> NoMember ]
    /\ committed = [ tp \in TopicPartitions |-> NoOffset ]
    /\ deliveries = << >>
    /\ responses = << >>
    /\ cancelled = FALSE
    /\ cycleResult = "none"

\* The relays start over an outbox that holds up to MaxEvents pending rows;
\* the topics have one partition (the broker's default).
Init ==
    \E n \in 0 .. MaxEvents : \E ins \in [ 1 .. n -> EventInputs ] :
        InitWith(PendingRows(n, ins), { 0 })

\* --------------------------------------------------- producing transaction

\* A producing transaction commits: its outbox row (insertOutboxEvent) becomes
\* visible to the relays.
ProduceEvent ==
    /\ nextId < MaxEvents
    /\ \E in \in EventInputs :
         outbox' = Append(outbox, OutboxRow(nextId + 1, in[1], in[2], in[3], clock))
    /\ nextId' = nextId + 1
    /\ clock' = clock + 1
    /\ transitions' = Append(transitions, 0)
    /\ UNCHANGED << cancelled, cycleResult, consumerVars, storeVars, relay, broker, pubLog, failed, retriedOk, crashedAt,
                    topicPartitions, faults >>

\* -------------------------------------------------- request transactions

\* insertOutboxEvent's INSERT, as a write of the open transaction.
OutboxWrite(eventID, aggregateID, eventType, payload, now) ==
    [ table |-> "outbox_events", kind |-> "insert", id |-> eventID,
      row |-> OutboxRow(eventID, aggregateID, eventType, payload, now) ]

\* Every handler passing the event type of a creation.
EventTypeCreated(op) == IF op = "ProcessTask" THEN "task.process" ELSE "resource.created"

\* The event type each handler passes to insertOutboxEvent.
EventTypeOf(op) ==
    CASE op = "createResource" -> "resource.created"
      [] op = "updateResource" -> "resource.updated"
      [] op = "deleteResource" -> "resource.deleted"
      [] op = "ProcessTask" -> "task.process"

\* The business statement of each handler, as a write of the transaction.
BusinessWrite(t) ==
    CASE t.op = "createResource" ->
            [ table |-> "resources", kind |-> "insert", id |-> t.id,
              row |-> [ name |-> t.body.name, status |-> "active" ] ]
      [] t.op = "updateResource" ->
            [ table |-> "resources", kind |-> "update", id |-> t.id,
              row |-> [ name |-> t.body.name, status |-> t.body.status ] ]
      [] t.op = "deleteResource" ->
            [ table |-> "resources", kind |-> "delete", id |-> t.id, row |-> "none" ]
      [] t.op = "ProcessTask" ->
            [ table |-> "tasks", kind |-> "insert", id |-> t.id,
              row |-> [ resource_id |-> t.body.resource_id, action |-> t.body.action,
                        status |-> "pending", result |-> "" ] ]

\* The payload each handler passes to insertOutboxEvent (before json.Marshal).
PayloadOf(t) ==
    CASE t.op = "createResource" ->
            [ id |-> t.id, name |-> t.body.name, status |-> "active" ]
      [] t.op = "updateResource" ->
            [ id |-> t.id, name |-> t.body.name, status |-> t.body.status ]
      [] t.op = "deleteResource" -> [ id |-> t.id, status |-> "deleted" ]
      [] t.op = "ProcessTask" ->
            [ id |-> t.id, resource_id |-> t.body.resource_id,
              action |-> t.body.action, status |-> "pending" ]

\* The handlers not looking at RowsAffected.
RowsAffectedIgnored(t) == 1

\* RowsAffected of the business statement: an UPDATE or DELETE of an id that
\* has no committed row affects nothing.
RowsAffected(t) ==
    IF t.op \in { "updateResource", "deleteResource" } /\ t.id \notin DOMAIN resources
    THEN 0 ELSE 1

\* Row locks: a statement on a row waits while another open transaction holds
\* an uncommitted write of that row.
RowLocked(h, table, id) ==
    \E h2 \in Handlers \ { h } : \E k \in DOMAIN txn[h2].writes :
        txn[h2].writes[k].table = table /\ txn[h2].writes[k].id = id

\* A table after one write of a committing transaction.
ApplyTo(tbl, w) ==
    CASE w.kind = "insert" -> (w.id :> w.row) @@ tbl
      [] w.kind = "update" -> IF w.id \in DOMAIN tbl THEN (w.id :> w.row) @@ tbl ELSE tbl
      [] w.kind = "delete" -> [ i \in DOMAIN tbl \ { w.id } |-> tbl[i] ]

RECURSIVE ApplyAll(_, _, _)
ApplyAll(tbl, name, writes) ==
    IF writes = << >> THEN tbl
    ELSE ApplyAll(IF Head(writes).table = name THEN ApplyTo(tbl, Head(writes)) ELSE tbl,
                  name, Tail(writes))

\* The outbox rows among the writes, in the order they were executed.
OutboxRowsOf(writes) ==
    LET ws == SelectSeq(writes, LAMBDA w : w.table = "outbox_events")
    IN  [ k \in DOMAIN ws |-> ws[k].row ]

HasBusinessWrite(writes) ==
    \E k \in DOMAIN writes : writes[k].table \in { "resources", "tasks" }

\* tx.Commit succeeds: every write of the transaction becomes visible at once.
CommitWrites(h) ==
    LET t == txn[h]
        rows == OutboxRowsOf(t.writes)
    IN  /\ resources' = ApplyAll(resources, "resources", t.writes)
        /\ tasks' = ApplyAll(tasks, "tasks", t.writes)
        /\ outbox' = outbox \o rows
        /\ transitions' = [ i \in 1 .. nextId |-> IF i \in DOMAIN transitions
                                                  THEN transitions[i] ELSE 0 ]
        /\ origin' = [ i \in DOMAIN origin \cup { rows[k].id : k \in DOMAIN rows } |->
                         IF i \in DOMAIN origin THEN origin[i] ELSE t.tx ]
        /\ bizCommitted' = IF HasBusinessWrite(t.writes)
                           THEN bizCommitted \cup { t.tx } ELSE bizCommitted

\* codes.OK and codes.Unknown: what a gRPC caller sees for a nil and for a
\* plain error.
GrpcOK == 0
GrpcUnknown == 2

\* What each handler answers: the HTTP status of the REST handlers, the gRPC
\* code of ProcessTask.  step is "done" after tx.Commit returned nil and
\* otherwise the step that failed.
Response(op, step) ==
    CASE step = "done" ->
            ( CASE op = "createResource" -> 201
                [] op = "updateResource" -> 200
                [] op = "deleteResource" -> 204
                [] op = "ProcessTask" -> GrpcOK )
      [] step = "notfound" -> 404
      [] OTHER -> IF op = "ProcessTask" THEN GrpcUnknown ELSE 500

\* The handler answers the caller of transaction tx.
Respond(tx, op, step) ==
    responses' = (tx :> [ op |-> op, code |-> Response(op, step) ]) @@ responses

\* The deferred tx.Rollback after an early return: the writes are discarded.
Rollback(h, step) ==
    /\ txn' = [ txn EXCEPT ![h] = NoTxn ]
    /\ aborted' = aborted \cup { << txn[h].tx, step >> }
    /\ Respond(txn[h].tx, txn[h].op, step)
    /\ UNCHANGED << cancelled, cycleResult, resources, tasks, outbox, transitions, origin, bizCommitted >>

\* A handler decodes its request and db.BeginTx succeeds.  Create and
\* ProcessTask draw the new row's id from uuid.New(); update and delete take
\* the id from the URL.
BeginTx(h) ==
    /\ txn[h].pc = "idle"
    /\ txCount < MaxEvents
    /\ \E op \in Ops : \E body \in Bodies(op) :
       \E target \in DOMAIN resources \cup { NoSuchId } :
         /\ op \in { "createResource", "ProcessTask" } => target = NoSuchId
         /\ LET new == op \in { "createResource", "ProcessTask" }
            IN  /\ txn' = [ txn EXCEPT ![h] =
                             [ pc |-> "exec", tx |-> txCount + 1, op |-> op,
                               id |-> IF new THEN nextId + 1 ELSE target,
                               body |-> body, writes |-> << >> ] ]
                /\ nextId' = IF new THEN nextId + 1 ELSE nextId
    /\ txCount' = txCount + 1
    /\ UNCHANGED << cancelled, cycleResult, consumerVars, outbox, resources, tasks, clock, relayVars, bizCommitted,
                    aborted, origin, faults, responses >>

\* db.BeginTx returns an error: the handler answers with an error, nothing
\* was written.
BeginTxFail(h) ==
    /\ txn[h].pc = "idle"
    /\ txCount < MaxEvents
    /\ faults < MaxFaults
    /\ faults' = faults + 1
    /\ txCount' = txCount + 1
    /\ aborted' = aborted \cup { << txCount + 1, "begin" >> }
    /\ \E op \in Ops : Respond(txCount + 1, op, "begin")
    /\ UNCHANGED << cancelled, cycleResult, consumerVars, outbox, resources, tasks, clock, nextId, relayVars,
                    txn, bizCommitted, origin >>

\* The business statement succeeds and affects a row.
ExecOk(h) ==
    /\ txn[h].pc = "exec"
    /\ ~RowLocked(h, BusinessWrite(txn[h]).table, txn[h].id)
    /\ RowsAffected(txn[h]) = 1
    /\ txn' = [ txn EXCEPT ![h].pc = "outbox",
                           ![h].writes = Append(@, BusinessWrite(txn[h])) ]
    /\ UNCHANGED << cancelled, cycleResult, consumerVars, outbox, resources, tasks, clock, nextId, relayVars, txCount,
                    bizCommitted, aborted, origin, faults, responses >>

\* UPDATE or DELETE affected no row: "Resource not found", return.
ExecNotFound(h) ==
    /\ txn[h].pc = "exec"
    /\ ~RowLocked(h, BusinessWrite(txn[h]).table, txn[h].id)
    /\ RowsAffected(txn[h]) = 0
    /\ Rollback(h, "notfound")
    /\ UNCHANGED << cancelled, cycleResult, consumerVars, clock, nextId, relayVars, txCount, faults >>

\* The business statement returns an error: return.
ExecFail(h) ==
    /\ txn[h].pc = "exec"
    /\ faults < MaxFaults
    /\ faults' = faults + 1
    /\ Rollback(h, "exec")
    /\ UNCHANGED << cancelled, cycleResult, consumerVars, clock, nextId, relayVars, txCount >>

\* insertOutboxEvent returns nil.
InsertOutboxOk(h) ==
    /\ txn[h].pc = "outbox"
    /\ txn' = [ txn EXCEPT ![h].pc = "commit",
                           ![h].writes = Append(@,
                               OutboxWrite(nextId + 1, txn[h].id, EventTypeOf(txn[h].op),
                                           PayloadOf(txn[h]), clock)) ]
    /\ nextId' = nextId + 1
    /\ clock' = clock + 1
    /\ UNCHANGED << cancelled, cycleResult, consumerVars, outbox, resources, tasks, relayVars, txCount, bizCommitted,
                    aborted, origin, faults, responses >>

\* insertOutboxEvent returns an error and the handler goes on to commit.
InsertOutboxFailIgnored(h) ==
    /\ txn[h].pc = "outbox"
    /\ faults < MaxFaults
    /\ faults' = faults + 1
    /\ txn' = [ txn EXCEPT ![h].pc = "commit" ]
    /\ UNCHANGED << cancelled, cycleResult, consumerVars, outbox, resources, tasks, clock, nextId, relayVars, txCount,
                    bizCommitted, aborted, origin, responses >>

\* insertOutboxEvent returns an error: return.
InsertOutboxFail(h) ==
    /\ txn[h].pc = "outbox"
    /\ faults < MaxFaults
    /\ faults' = faults + 1
    /\ Rollback(h, "outbox")
    /\ UNCHANGED << cancelled, cycleResult, consumerVars, clock, nextId, relayVars, txCount >>

\* tx.Commit returns nil: the handler answers with its success status.
CommitOk(h) ==
    /\ txn[h].pc = "commit"
    /\ CommitWrites(h)
    /\ Respond(txn[h].tx, txn[h].op, "done")
    /\ txn' = [ txn EXCEPT ![h] = NoTxn ]
    /\ UNCHANGED << cancelled, cycleResult, consumerVars, clock, nextId, relay, broker, pubLog, failed, retriedOk,
                    crashedAt, topicPartitions, txCount, aborted, faults >>

\* tx.Commit returns an error and the handler goes on to its success answer.
CommitFailAnswersSuccess(h) ==
    /\ txn[h].pc = "commit"
    /\ faults < MaxFaults
    /\ faults' = faults + 1
    /\ txn' = [ txn EXCEPT ![h] = NoTxn ]
    /\ aborted' = aborted \cup { << txn[h].tx, "commit" >> }
    /\ Respond(txn[h].tx, txn[h].op, "done")
    /\ UNCHANGED << cancelled, cycleResult, consumerVars, resources, tasks, outbox, transitions, origin,
                    bizCommitted, clock, nextId, relayVars, txCount >>

\* tx.Commit returns an error: return.
CommitFail(h) ==
    /\ txn[h].pc = "commit"
    /\ faults < MaxFaults
    /\ faults' = faults + 1
    /\ Rollback(h, "commit")
    /\ UNCHANGED << cancelled, cycleResult, consumerVars, clock, nextId, relayVars, txCount >>

HandlerStep(h) ==
    \/ BeginTx(h)
    \/ BeginTxFail(h)
    \/ ExecOk(h)
    \/ ExecNotFound(h)
    \/ ExecFail(h)
    \/ InsertOutboxOk(h)
    \/ InsertOutboxFail(h)
    \/ CommitOk(h)
    \/ CommitFail(h)

\* ------------------------------------------------------------------ relay

\* processOutboxEvents returns nil after the loop over the batch, whatever
\* happened to its events; rs is the relay after the event at hand.
ReturnAfterLoop(rs) ==
    cycleResult' = IF rs.pc = "idle" THEN "nil" ELSE cycleResult

\* The loop going on with the event it has just handled.
NextEventRepeats(rs) == [ rs EXCEPT !.pc = "publish" ]

\* The loop "for _, event := range events": after the event at idx, go on
\* with the next one, or return to the ticker when the batch is done.
NextEvent(rs) ==
    IF rs.idx < Len(rs.events)
    THEN [ rs EXCEPT !.pc = "publish", !.idx = rs.idx + 1 ]
    ELSE IdleRelay

\* ticker.C fires: processOutboxEvents runs its query.
Poll(r) ==
    /\ relay[r].pc = "idle"
    /\ ~cancelled
    /\ LET events == SelectPending(outbox)
       IN  relay' = [ relay EXCEPT ![r] =
                        IF Len(events) = 0 THEN IdleRelay
                        ELSE [ pc |-> "publish", events |-> events, idx |-> 1,
                               retry |-> { events[k].ID : k \in DOMAIN events } \cap failed ] ]
    /\ cycleResult' = IF Len(SelectPending(outbox)) = 0 THEN "nil" ELSE cycleResult
    /\ UNCHANGED << cancelled, consumerVars, outbox, clock, nextId, storeVars, broker, pubLog, failed,
                    retriedOk, crashedAt, transitions, topicPartitions, faults >>

\* db.QueryContext fails: processOutboxEvents returns the error, the loop
\* logs it and waits for the next tick.
PollFail(r) ==
    /\ relay[r].pc = "idle"
    /\ faults < MaxFaults
    /\ faults' = faults + 1
    /\ cycleResult' = "error"
    /\ UNCHANGED << cancelled, consumerVars, outbox, clock, nextId, storeVars, relayVars >>

\* publishToKafka returns nil: the broker acknowledged the message.
PublishOk(r) ==
    /\ relay[r].pc = "publish"
    /\ ~cancelled
    /\ LET event == relay[r].events[relay[r].idx]
       IN  /\ \E p \in LeastBytes(KafkaMessage(event), NewWriterBytes(topicPartitions)) :
                broker' = Append(broker, BrokerRecord(event, p))
           /\ pubLog' = Append(pubLog, event.ID)
    /\ relay' = [ relay EXCEPT ![r].pc = "mark" ]
    /\ UNCHANGED << cancelled, cycleResult, consumerVars, outbox, clock, nextId, storeVars, failed, retriedOk, crashedAt,
                    transitions, topicPartitions, faults >>

\* The publish error path without its "continue": the event is marked.
PublishFailThenMark(r) ==
    /\ relay[r].pc = "publish"
    /\ faults < MaxFaults
    /\ faults' = faults + 1
    /\ failed' = failed \cup { relay[r].events[relay[r].idx].ID }
    /\ relay' = [ relay EXCEPT ![r].pc = "mark" ]
    /\ UNCHANGED << cancelled, cycleResult, consumerVars, outbox, clock, nextId, storeVars, broker, pubLog, retriedOk,
                    crashedAt, transitions, topicPartitions >>

\* The publish error path deleting the row it could not publish.
PublishFailDropsRow(r) ==
    /\ relay[r].pc = "publish"
    /\ faults < MaxFaults
    /\ faults' = faults + 1
    /\ failed' = failed \cup { relay[r].events[relay[r].idx].ID }
    /\ outbox' = SelectSeq(outbox, LAMBDA row : row.id # relay[r].events[relay[r].idx].ID)
    /\ relay' = [ relay EXCEPT ![r] = NextEvent(relay[r]) ]
    /\ ReturnAfterLoop(NextEvent(relay[r]))
    /\ UNCHANGED << cancelled, consumerVars, clock, nextId, storeVars, broker, pubLog, retriedOk,
                    crashedAt, transitions, topicPartitions >>

\* The publish error path returning the error from processOutboxEvents.
PublishFailReturns(r) ==
    /\ relay[r].pc = "publish"
    /\ faults < MaxFaults
    /\ faults' = faults + 1
    /\ failed' = failed \cup { relay[r].events[relay[r].idx].ID }
    /\ relay' = [ relay EXCEPT ![r] = IdleRelay ]
    /\ cycleResult' = "error"
    /\ UNCHANGED << cancelled, consumerVars, outbox, clock, nextId, storeVars, broker, pubLog, retriedOk,
                    crashedAt, transitions, topicPartitions >>

\* publishToKafka returns an error: log and "continue".
PublishFail(r) ==
    /\ relay[r].pc = "publish"
    /\ faults < MaxFaults
    /\ faults' = faults + 1
    /\ failed' = failed \cup { relay[r].events[relay[r].idx].ID }
    /\ relay' = [ relay EXCEPT ![r] = NextEvent(relay[r]) ]
    /\ ReturnAfterLoop(NextEvent(relay[r]))
    /\ UNCHANGED << cancelled, consumerVars, outbox, clock, nextId, storeVars, broker, pubLog, retriedOk,
                    crashedAt, transitions, topicPartitions >>

\* writer.WriteMessages refuses a message above its size limit, every time
\* it is given the message.
MessageTooLarge(msg) == msg.Value = Oversized

\* publishToKafka returns nil for a message within the size limit.
PublishWithinLimit(r) ==
    /\ relay[r].pc = "publish"
    /\ ~MessageTooLarge(KafkaMessage(relay[r].events[relay[r].idx]))
    /\ PublishOk(r)

\* publishToKafka returns the writer's error for an oversized message: log
\* and "continue"; the row stays pending.
PublishTooLarge(r) ==
    /\ relay[r].pc = "publish"
    /\ MessageTooLarge(KafkaMessage(relay[r].events[relay[r].idx]))
    /\ failed' = failed \cup { relay[r].events[relay[r].idx].ID }
    /\ relay' = [ relay EXCEPT ![r] = NextEvent(relay[r]) ]
    /\ ReturnAfterLoop(NextEvent(relay[r]))
    /\ UNCHANGED << cancelled, consumerVars, outbox, clock, nextId, storeVars, broker, pubLog,
                    retriedOk, crashedAt, transitions, topicPartitions, faults >>

\* markEventProcessed returns nil.
MarkOk(r) ==
    /\ relay[r].pc = "mark"
    /\ ~cancelled
    /\ LET id == relay[r].events[relay[r].idx].ID
       IN  /\ outbox' = MarkEventProcessed(outbox, id, clock)
           /\ retriedOk' = IF id \in relay[r].retry THEN retriedOk \cup { id }
                           ELSE retriedOk
           /\ transitions' =
                [ i \in DOMAIN transitions |->
                    IF /\ i \in RowIds(outbox)
                       /\ RowOf(outbox, i).processed_at = NULL
                       /\ RowOf(outbox', i).processed_at # NULL
                    THEN transitions[i] + 1 ELSE transitions[i] ]
    /\ clock' = clock + 1
    /\ relay' = [ relay EXCEPT ![r] = NextEvent(relay[r]) ]
    /\ ReturnAfterLoop(NextEvent(relay[r]))
    /\ UNCHANGED << cancelled, consumerVars, nextId, storeVars, broker, pubLog, failed, crashedAt,
                    topicPartitions, faults >>

\* markEventProcessed returns an error: log, go on with the next event.
MarkFail(r) ==
    /\ relay[r].pc = "mark"
    /\ faults < MaxFaults
    /\ faults' = faults + 1
    /\ relay' = [ relay EXCEPT ![r] = NextEvent(relay[r]) ]
    /\ ReturnAfterLoop(NextEvent(relay[r]))
    /\ UNCHANGED << cancelled, consumerVars, outbox, clock, nextId, storeVars, broker, pubLog, failed,
                    retriedOk, crashedAt, transitions, topicPartitions >>

\* The process dies inside a cycle and is started again: the events it had
\* selected are gone, the next tick polls afresh.
CrashRestart(r) ==
    /\ relay[r].pc \in { "publish", "mark" }
    /\ faults < MaxFaults
    /\ faults' = faults + 1
    /\ crashedAt' = IF relay[r].pc = "mark"
                    THEN crashedAt \cup { relay[r].events[relay[r].idx].ID }
                    ELSE crashedAt
    /\ relay' = [ relay EXCEPT ![r] = IdleRelay ]
    /\ UNCHANGED << cancelled, cycleResult, consumerVars, outbox, clock, nextId, storeVars, broker, pubLog, failed,
                    retriedOk, transitions, topicPartitions >>

RelayStep(r) ==
    \/ Poll(r)
    \/ PollFail(r)
    \/ PublishOk(r)
    \/ PublishFail(r)
    \/ MarkOk(r)
    \/ MarkFail(r)
    \/ CrashRestart(r)

\* --------------------------------------------------------------- consumer

\* The messages of a topic partition, in offset order (offsets start at 0).
Log(tp) == SelectSeq(broker, LAMBDA m : m.topic = tp[1] /\ m.partition = tp[2])

LogEnd(tp) == Len(Log(tp))

\* StartOffset: kafka.LastOffset.  A member that is assigned a partition
\* starts at the group's committed offset, and at the end of the log when the
\* group has committed none.
StartOffset(tp) == IF committed[tp] = NoOffset THEN LogEnd(tp) ELSE committed[tp]

\* The message consumer c fetched last.
Msg(c) == Log(consumer[c].cur.tp)[consumer[c].cur.off + 1]

\* json.Unmarshal(msg.Value, &payload); payload["id"].(string)
HasResourceID(value) == "id" \in DOMAIN value

ResourceID(value) == value["id"]

\* switch msg.Topic
Action(topic) ==
    CASE topic = "resource.created" -> "process_new_resource"
      [] topic = "resource.updated" -> "reprocess_resource"
      [] topic = "resource.deleted" -> "cleanup_resource"
      [] OTHER -> "unknown"

\* The task id made unique per call instead of derived from the resource.
TaskIDFresh(resourceID) == << "auto", resourceID, Len(deliveries) >>

\* taskID := fmt.Sprintf("auto-%s", resourceID)
TaskID(resourceID) == << "auto", resourceID >>

\* fmt.Sprintf("Processing %s event for resource %s", msg.Topic, resourceID)
ProcessingResult(topic, resourceID) == << "Processing", topic, resourceID >>

\* The completed result carrying the time of the completion.
CompletedResultStamped(action, resourceID) == << "Completed", action, resourceID, clock >>

\* fmt.Sprintf("Completed %s for resource %s", action, resourceID)
CompletedResult(action, resourceID) == << "Completed", action, resourceID >>

\* INSERT INTO tasks ... ON CONFLICT (id) DO UPDATE SET action, status =
\* 'processing', updated_at: the row of taskID after the statement.
UpsertTask(tbl, taskID, resourceID, action, result, now) ==
    IF taskID \in DOMAIN tbl
    THEN [ tbl[taskID] EXCEPT !.action = action, !.status = "processing",
                              !.updated_at = now ]
    ELSE [ id |-> taskID, resource_id |-> resourceID, action |-> action,
           status |-> "processing", result |-> result,
           created_at |-> now, updated_at |-> now ]

\* The UPDATE without its status column.
CompleteTaskKeepsStatus(row, action, resourceID, now) ==
    [ row EXCEPT !.result = CompletedResult(action, resourceID),
                 !.updated_at = now ]

\* UPDATE tasks SET status = $1, result = $2, updated_at = $3 WHERE id = $4
CompleteTask(row, action, resourceID, now) ==
    [ row EXCEPT !.status = "completed",
                 !.result = CompletedResult(action, resourceID),
                 !.updated_at = now ]

\* taskData, the payload of the task.completed event.
TaskData(taskID, resourceID, action) ==
    [ task_id |-> taskID, resource_id |-> resourceID, action |-> action,
      status |-> "completed" ]

\* The row lock of the upsert: the statement waits while another open
\* transaction holds an uncommitted write of the row with the same id.
TaskLocked(c, taskID) ==
    \E c2 \in Consumers \ { c } :
        /\ consumer[c2].pc \in { "complete", "outbox", "commit" }
        /\ consumer[c2].row.id = taskID

\* The columns of a task row apart from its timestamps.
Content(row) ==
    [ id |-> row.id, resource_id |-> row.resource_id, action |-> row.action,
      status |-> row.status, result |-> row.result ]

\* The locals of processKafkaMessage for the message consumer c handles.
ResourceIDOf(c) == ResourceID(Msg(c).message.Value)

ActionOf(c) == Action(Msg(c).topic)

TaskIDOf(c) == TaskID(ResourceIDOf(c))

\* The outcome of delivery d is recorded (history).
Settle(d, state, step, row, ob) ==
    deliveries' = [ deliveries EXCEPT ![d].state = state, ![d].step = step,
                                      ![d].after = row, ![d].ob = ob ]

\* The group's balancer (kafka-go's default, range) splits the partitions of
\* each topic over the members in the same way, so a member holds the same
\* partition numbers of every subscribed topic.
Assigned(c, tp) == tp[2] \in topicPartitions /\ owner[tp[2]] = c

\* startKafkaConsumer: the reader joins the group and is assigned the
\* partitions that have no member.
StartConsumer(c) ==
    /\ consumer[c].pc = "down"
    /\ owner' = [ p \in Partitions |->
                    IF p \in topicPartitions /\ owner[p] = NoMember THEN c ELSE owner[p] ]
    /\ consumer' = [ consumer EXCEPT ![c] =
                       [ DownConsumer EXCEPT
                           !.pc = "fetch",
                           !.pos = [ tp \in TopicPartitions |->
                                       IF tp[2] \in topicPartitions /\ owner[tp[2]] = NoMember
                                       THEN StartOffset(tp) ELSE 0 ] ] ]
    /\ UNCHANGED << cancelled, cycleResult, outbox, resources, tasks, clock, nextId, storeVars, relayVars,
                    faults, committed, deliveries >>

\* The group rebalances: a partition moves to the running member c, which
\* starts at the committed offset.  The member that had the partition goes
\* on with the message it is handling.
Rebalance(c) ==
    /\ consumer[c].pc # "down"
    /\ \E p \in topicPartitions :
         /\ owner[p] # c
         /\ owner[p] # NoMember => faults < MaxFaults
         /\ faults' = IF owner[p] # NoMember THEN faults + 1 ELSE faults
         /\ owner' = [ owner EXCEPT ![p] = c ]
         /\ consumer' = [ consumer EXCEPT
                            ![c].pos = [ tp \in TopicPartitions |->
                                           IF tp[2] = p THEN StartOffset(tp) ELSE @[tp] ] ]
    /\ UNCHANGED << cancelled, cycleResult, outbox, resources, tasks, clock, nextId, storeVars, relayVars,
                    committed, deliveries >>

\* The deliveries of the message at offset off of tp that other instances
\* have fetched and whose offset they have not committed yet (history).
OpenDeliveriesOf(c, tp, off) ==
    { consumer[c2].d : c2 \in { x \in Consumers \ { c } :
                                   /\ consumer[x].pc \in { "handle", "complete", "outbox",
                                                            "commit", "ack" }
                                   /\ consumer[x].cur = [ tp |-> tp, off |-> off ] } }

\* reader.FetchMessage returns the next message of an assigned partition.
FetchMessage(c) ==
    /\ consumer[c].pc = "fetch"
    /\ ~cancelled
    /\ \E tp \in TopicPartitions :
         /\ Assigned(c, tp)
         /\ consumer[c].pos[tp] < LogEnd(tp)
         /\ LET off == consumer[c].pos[tp]
                m == Log(tp)[off + 1]
            IN  /\ consumer' = [ consumer EXCEPT
                                   ![c].pc = "handle",
                                   ![c].pos[tp] = off + 1,
                                   ![c].cur = [ tp |-> tp, off |-> off ],
                                   ![c].d = Len(deliveries) + 1 ]
                /\ deliveries' = Append(deliveries,
                                   [ tp |-> tp, off |-> off,
                                     event |-> m.message.Headers.event_id,
                                     topic |-> m.topic,
                                     state |-> "open", step |-> "", after |-> << >>,
                                     ob |-> 0, during |-> OpenDeliveriesOf(c, tp, off) ])
    /\ UNCHANGED << cancelled, cycleResult, outbox, resources, tasks, clock, nextId, storeVars, relayVars,
                    faults, owner, committed >>

\* The loop with a fetch error ending it.
FetchFailFatal(c) ==
    /\ consumer[c].pc = "fetch"
    /\ ~cancelled
    /\ faults < MaxFaults
    /\ faults' = faults + 1
    /\ consumer' = [ consumer EXCEPT ![c].pc = "exited" ]
    /\ UNCHANGED << cancelled, cycleResult, outbox, resources, tasks, clock, nextId, storeVars, relayVars,
                    owner, committed, deliveries >>

\* reader.FetchMessage returns an error that is not context.Canceled (the
\* broker is unreachable): it is logged and the loop continues with the next
\* FetchMessage; the reader keeps its positions.
FetchFail(c) ==
    /\ consumer[c].pc = "fetch"
    /\ ~cancelled
    /\ faults < MaxFaults
    /\ faults' = faults + 1
    /\ UNCHANGED << cancelled, cycleResult, outbox, resources, tasks, clock, nextId, storeVars, relayVars,
                    consumerVars >>

\* processKafkaMessage returns before db.BeginTx: json.Unmarshal fails or the
\* payload has no string "id".  The loop logs the error, commits nothing and
\* fetches on.
RejectInvalid(c) ==
    /\ consumer[c].pc = "handle"
    /\ ~HasResourceID(Msg(c).message.Value)
    /\ Settle(consumer[c].d, "rejected", "parse", << >>, 0)
    /\ consumer' = [ consumer EXCEPT ![c].pc = "fetch" ]
    /\ UNCHANGED << cancelled, cycleResult, outbox, resources, tasks, clock, nextId, storeVars, relayVars,
                    faults, owner, committed >>

\* processKafkaMessage up to the upsert: the payload parses, db.BeginTx and
\* the INSERT ... ON CONFLICT succeed.
UpsertOk(c) ==
    /\ consumer[c].pc = "handle"
    /\ ~cancelled
    /\ HasResourceID(Msg(c).message.Value)
    /\ ~TaskLocked(c, TaskIDOf(c))
    /\ consumer' = [ consumer EXCEPT
                       ![c].pc = "complete",
                       ![c].row = UpsertTask(tasks, TaskIDOf(c), ResourceIDOf(c), ActionOf(c),
                                             ProcessingResult(Msg(c).topic, ResourceIDOf(c)),
                                             clock) ]
    /\ UNCHANGED << cancelled, cycleResult, outbox, resources, tasks, clock, nextId, storeVars, relayVars,
                    faults, owner, committed, deliveries >>

\* The UPDATE to 'completed' succeeds.
CompleteOk(c) ==
    /\ consumer[c].pc = "complete"
    /\ ~cancelled
    /\ consumer' = [ consumer EXCEPT
                       ![c].pc = "outbox",
                       ![c].row = CompleteTask(@, ActionOf(c), ResourceIDOf(c), clock) ]
    /\ UNCHANGED << cancelled, cycleResult, outbox, resources, tasks, clock, nextId, storeVars, relayVars,
                    faults, owner, committed, deliveries >>

\* insertOutboxEvent(ctx, tx, taskID, "task.completed", taskData) returns nil.
CompletedEventOk(c) ==
    /\ consumer[c].pc = "outbox"
    /\ ~cancelled
    /\ consumer' = [ consumer EXCEPT
                       ![c].pc = "commit",
                       ![c].ob = OutboxRow(nextId + 1, TaskIDOf(c), "task.completed",
                                           TaskData(TaskIDOf(c), ResourceIDOf(c), ActionOf(c)),
                                           clock) ]
    /\ nextId' = nextId + 1
    /\ clock' = clock + 1
    /\ UNCHANGED << cancelled, cycleResult, outbox, resources, tasks, storeVars, relayVars, faults, owner,
                    committed, deliveries >>

\* The error path with the statements run on the connection pool instead of
\* the transaction: the statements that succeeded stay.
HandleFailAutocommit(c) ==
    /\ consumer[c].pc \in { "handle", "complete", "outbox", "commit" }
    /\ faults < MaxFaults
    /\ faults' = faults + 1
    /\ tasks' = IF consumer[c].pc \in { "complete", "outbox", "commit" }
                THEN (consumer[c].row.id :> consumer[c].row) @@ tasks
                ELSE tasks
    /\ Settle(consumer[c].d, "failed", consumer[c].pc, << >>, 0)
    /\ consumer' = [ consumer EXCEPT ![c].pc = "fetch", ![c].row = << >>,
                                     ![c].ob = << >> ]
    /\ UNCHANGED << cancelled, cycleResult, outbox, resources, clock, nextId, txn, txCount, bizCommitted,
                    aborted, origin, responses, relayVars, owner, committed >>

\* A statement of processKafkaMessage (BeginTx, the upsert, the update, the
\* outbox insert) or tx.Commit returns an error: the call returns it, the
\* deferred tx.Rollback discards the writes, the loop logs and fetches on.
HandleFail(c) ==
    /\ consumer[c].pc \in { "handle", "complete", "outbox", "commit" }
    /\ faults < MaxFaults
    /\ faults' = faults + 1
    /\ Settle(consumer[c].d, "failed", consumer[c].pc, << >>, 0)
    /\ consumer' = [ consumer EXCEPT ![c].pc = "fetch", ![c].row = << >>,
                                     ![c].ob = << >> ]
    /\ UNCHANGED << cancelled, cycleResult, outbox, resources, tasks, clock, nextId, storeVars, relayVars,
                    owner, committed >>

\* tx.Commit returns nil: the task row and the task.completed event become
\* visible at once; processKafkaMessage returns nil.
CommitTaskOk(c) ==
    /\ consumer[c].pc = "commit"
    /\ ~cancelled
    /\ tasks' = (consumer[c].row.id :> consumer[c].row) @@ tasks
    /\ outbox' = Append(outbox, consumer[c].ob)
    /\ transitions' = [ i \in 1 .. nextId |-> IF i \in DOMAIN transitions
                                              THEN transitions[i] ELSE 0 ]
    /\ Settle(consumer[c].d, "committed", "", Content(consumer[c].row), consumer[c].ob.id)
    /\ consumer' = [ consumer EXCEPT ![c].pc = "ack", ![c].row = << >>, ![c].ob = << >> ]
    /\ UNCHANGED << cancelled, cycleResult, resources, clock, nextId, txn, txCount, bizCommitted, aborted,
                    origin, responses, relay, broker, pubLog, failed, retriedOk,
                    crashedAt, topicPartitions, faults, owner, committed >>

\* reader.CommitMessages(ctx, msg): the group's offset of the partition
\* becomes the offset after msg.  A member that lost the partition in a
\* rebalance has its commit refused; the error is logged.
CommitMessages(c) ==
    /\ consumer[c].pc = "ack"
    /\ committed' = IF Assigned(c, consumer[c].cur.tp)
                    THEN [ committed EXCEPT ![consumer[c].cur.tp] = consumer[c].cur.off + 1 ]
                    ELSE committed
    /\ consumer' = [ consumer EXCEPT ![c].pc = "fetch" ]
    /\ UNCHANGED << cancelled, cycleResult, outbox, resources, tasks, clock, nextId, storeVars, relayVars,
                    faults, owner, deliveries >>

\* reader.CommitMessages returns an error: it is logged, the offset stays.
CommitMessagesFail(c) ==
    /\ consumer[c].pc = "ack"
    /\ faults < MaxFaults
    /\ faults' = faults + 1
    /\ consumer' = [ consumer EXCEPT ![c].pc = "fetch" ]
    /\ UNCHANGED << cancelled, cycleResult, outbox, resources, tasks, clock, nextId, storeVars, relayVars,
                    owner, committed, deliveries >>

\* The process dies and leaves the group; an open transaction is rolled back
\* by the database, an offset not yet committed is not committed.
ConsumerCrash(c) ==
    /\ consumer[c].pc # "down"
    /\ faults < MaxFaults
    /\ faults' = faults + 1
    /\ IF consumer[c].pc \in { "handle", "complete", "outbox", "commit" }
       THEN Settle(consumer[c].d, "crashed", consumer[c].pc, << >>, 0)
       ELSE UNCHANGED deliveries
    /\ owner' = [ p \in Partitions |-> IF owner[p] = c THEN NoMember ELSE owner[p] ]
    /\ consumer' = [ consumer EXCEPT ![c] = DownConsumer ]
    /\ UNCHANGED << cancelled, cycleResult, outbox, resources, tasks, clock, nextId, storeVars, relayVars,
                    committed >>

\* The REST service's relay publishes the event of a resource operation to
\* its topic (PublishOk over that service's outbox).
PublishResourceEvent ==
    /\ nextId < MaxEvents
    /\ \E in \in ResourceEvents :
         LET event == ScanEvent(OutboxRow(nextId + 1, in[1], in[2], in[3], clock))
         IN  /\ \E p \in LeastBytes(KafkaMessage(event), NewWriterBytes(topicPartitions)) :
                  broker' = Append(broker, BrokerRecord(event, p))
             /\ pubLog' = Append(pubLog, event.ID)
    /\ nextId' = nextId + 1
    /\ UNCHANGED << cancelled, cycleResult, outbox, resources, tasks, clock, storeVars, relay, failed, retriedOk,
                    crashedAt, transitions, topicPartitions, faults, consumerVars >>

\* Some producer writes a message without an "id" to a subscribed topic.
PublishInvalidEvent ==
    /\ nextId < MaxEvents
    /\ \E in \in InvalidEvents :
         LET event == ScanEvent(OutboxRow(nextId + 1, in[1], in[2], in[3], clock))
         IN  /\ \E p \in LeastBytes(KafkaMessage(event), NewWriterBytes(topicPartitions)) :
                  broker' = Append(broker, BrokerRecord(event, p))
             /\ pubLog' = Append(pubLog, event.ID)
    /\ nextId' = nextId + 1
    /\ UNCHANGED << cancelled, cycleResult, outbox, resources, tasks, clock, storeVars, relay, failed, retriedOk,
                    crashedAt, transitions, topicPartitions, faults, consumerVars >>

\* That relay died, or its mark failed, after a publish was acknowledged: the
\* event is selected again and published a second time.
RepublishResourceEvent ==
    /\ faults < MaxFaults
    /\ faults' = faults + 1
    /\ \E k \in DOMAIN broker :
         /\ broker' = Append(broker, broker[k])
         /\ pubLog' = Append(pubLog, pubLog[k])
    /\ UNCHANGED << cancelled, cycleResult, outbox, resources, tasks, clock, nextId, storeVars, relay, failed,
                    retriedOk, crashedAt, transitions, topicPartitions, consumerVars >>

ConsumerStep(c) ==
    \/ StartConsumer(c)
    \/ Rebalance(c)
    \/ FetchMessage(c)
    \/ UpsertOk(c)
    \/ CompleteOk(c)
    \/ CompletedEventOk(c)
    \/ HandleFail(c)
    \/ CommitTaskOk(c)
    \/ CommitMessages(c)
    \/ CommitMessagesFail(c)
    \/ ConsumerCrash(c)

\* ---------------------------------------------------------------- shutdown

\* main: a signal arrives on quit and cancel() closes ctx.Done().  Every
\* round trip that takes ctx returns an error from then on.
Cancel ==
    /\ ~cancelled
    /\ cancelled' = TRUE
    /\ UNCHANGED << outbox, clock, nextId, storeVars, relayVars, faults, consumerVars,
                    cycleResult >>

\* publishToKafka with the cancelled ctx: WriteMessages returns the context's
\* error, the loop logs and goes on with the next event.
PublishCancelled(r) ==
    /\ relay[r].pc = "publish"
    /\ cancelled
    /\ failed' = failed \cup { relay[r].events[relay[r].idx].ID }
    /\ relay' = [ relay EXCEPT ![r] = NextEvent(relay[r]) ]
    /\ ReturnAfterLoop(NextEvent(relay[r]))
    /\ UNCHANGED << cancelled, consumerVars, outbox, clock, nextId, storeVars, broker, pubLog,
                    retriedOk, crashedAt, transitions, topicPartitions, faults >>

\* markEventProcessed with the cancelled ctx: db.ExecContext returns the
\* context's error, the loop logs it and goes on with the next event.
MarkCancelled(r) ==
    /\ relay[r].pc = "mark"
    /\ cancelled
    /\ relay' = [ relay EXCEPT ![r] = NextEvent(relay[r]) ]
    /\ ReturnAfterLoop(NextEvent(relay[r]))
    /\ UNCHANGED << cancelled, consumerVars, outbox, clock, nextId, storeVars, broker, pubLog,
                    failed, retriedOk, crashedAt, transitions, topicPartitions, faults >>

\* The relay loop that has no case for ctx.Done(): it waits for the next tick.
RelayIgnoresDone(r) ==
    /\ relay[r].pc = "idle"
    /\ cancelled
    /\ UNCHANGED vars

\* startOutboxProcessor, case <-ctx.Done(): the loop logs and returns.  (A
\* tick the select picks instead runs a query that fails and comes back to
\* the select.)
RelayExit(r) ==
    /\ relay[r].pc = "idle"
    /\ cancelled
    /\ relay' = [ relay EXCEPT ![r].pc = "exited" ]
    /\ UNCHANGED << cancelled, cycleResult, consumerVars, outbox, clock, nextId, storeVars, broker, pubLog,
                    failed, retriedOk, crashedAt, transitions, topicPartitions, faults >>

\* processKafkaMessage with the cancelled ctx: db.BeginTx or a statement
\* returns the context's error, tx.Commit fails on a transaction whose context
\* is cancelled; the deferred tx.Rollback discards the writes.
HandleCancelled(c) ==
    /\ consumer[c].pc \in { "handle", "complete", "outbox", "commit" }
    /\ cancelled
    /\ Settle(consumer[c].d, "failed", consumer[c].pc, << >>, 0)
    /\ consumer' = [ consumer EXCEPT ![c].pc = "fetch", ![c].row = << >>,
                                     ![c].ob = << >> ]
    /\ UNCHANGED << cancelled, cycleResult, outbox, resources, tasks, clock, nextId, storeVars, relayVars,
                    faults, owner, committed >>

\* reader.CommitMessages with the cancelled ctx takes its case <-ctx.Done()
\* and returns the context's error: it is logged, the offset stays.
CommitMessagesCancelled(c) ==
    /\ consumer[c].pc = "ack"
    /\ cancelled
    /\ consumer' = [ consumer EXCEPT ![c].pc = "fetch" ]
    /\ UNCHANGED << cancelled, cycleResult, outbox, resources, tasks, clock, nextId, storeVars, relayVars,
                    faults, owner, committed, deliveries >>

\* startKafkaConsumer, case <-ctx.Done() (or FetchMessage returning
\* context.Canceled): the loop returns and the deferred reader.Close() leaves
\* the group.
ConsumerExit(c) ==
    /\ consumer[c].pc = "fetch"
    /\ cancelled
    /\ owner' = [ p \in Partitions |-> IF owner[p] = c THEN NoMember ELSE owner[p] ]
    /\ consumer' = [ consumer EXCEPT ![c].pc = "exited" ]
    /\ UNCHANGED << cancelled, cycleResult, outbox, resources, tasks, clock, nextId, storeVars, relayVars,
                    faults, committed, deliveries >>

Next == \E r \in Relays : RelayStep(r)

Spec == Init /\ [][Next]_vars

\* The tickers keep firing and a relay that died is started again: as long as
\* some relay has a step to take, a step is taken (no relay is required to
\* get its turn).  The faults of a behaviour are bounded, so a publish that
\* keeps being retried succeeds in the end.
SpecLive == Init /\ [][Next]_vars /\ WF_vars(Next)

\* The relays run while producing transactions commit, over topics with
\* several partitions; no round trip fails.
InitKafka == InitWith(<< >>, Partitions)

KafkaNext ==
    \/ ProduceEvent
    \/ \E r \in Relays : Poll(r) \/ PublishOk(r) \/ MarkOk(r)

SpecKafka == InitKafka /\ [][KafkaNext]_vars

\* The request handlers run against an empty database; the relays stay idle.
InitTx == InitWith(<< >>, { 0 })

TxNext == \E h \in Handlers : HandlerStep(h)

SpecTx == InitTx /\ [][TxNext]_vars

\* The request handlers run while a relay publishes and marks what they
\* committed.
CallerNext ==
    \/ \E h \in Handlers : HandlerStep(h)
    \/ Poll(1) \/ PublishOk(1) \/ MarkOk(1)

SpecCaller == InitTx /\ [][CallerNext]_vars

\* The consumer group of the gRPC service over its own database (the tasks
\* and the task.completed events it writes), while the REST service's relay
\* publishes resource events to the subscribed topics.
InitConsumer == InitWith(<< >>, { 0 })

ConsumerNext ==
    \/ PublishResourceEvent
    \/ RepublishResourceEvent
    \/ \E c \in Consumers : ConsumerStep(c)

SpecConsumer == InitConsumer /\ [][ConsumerNext]_vars

\* The pipeline end to end: one relay publishes the pending resource events
\* of the outbox, one consumer instance handles them.
InitPipeline ==
    \E n \in 1 .. MaxEvents : \E ins \in [ 1 .. n -> ResourceEvents ] :
        InitWith(PendingRows(n, ins), { 0 })

PipelineNext ==
    \/ Poll(1) \/ PublishOk(1) \/ MarkOk(1)
    \/ StartConsumer(1) \/ FetchMessage(1) \/ UpsertOk(1) \/ CompleteOk(1)
    \/ CompletedEventOk(1) \/ CommitTaskOk(1) \/ CommitMessages(1) \/ ConsumerCrash(1)

SpecPipeline == InitPipeline /\ [][PipelineNext]_vars

\* One relay instance over a backlog: more pending rows than a batch holds,
\* written by transactions that drew created_at (time.Now() in
\* insertOutboxEvent) in any order relative to each other; rows 1 and 3 are
\* events of one aggregate.  Publishes may fail; no crash, every mark succeeds.
BacklogRows(n, at) ==
    [ i \in 1 .. n |->
        LET in == CHOOSE e \in EventInputs :
                      e[1] = IF i = 2 THEN "agg-2" ELSE "agg-1"
        IN  OutboxRow(i, in[1], in[2], in[3], at[i]) ]

InitBacklog ==
    \E n \in 1 .. MaxEvents + 1 : \E at \in [ 1 .. n -> 1 .. n ] :
        InitWith(BacklogRows(n, at), { 0 })

SingleNext == Poll(1) \/ PublishOk(1) \/ PublishFail(1) \/ MarkOk(1)

SpecSingle == InitBacklog /\ [][SingleNext]_vars

\* One relay instance over the backlog with every round trip of a cycle
\* failing at times: the query, a publish, a mark.  No crash.
CycleNext ==
    \/ Poll(1) \/ PollFail(1)
    \/ PublishOk(1) \/ PublishFail(1)
    \/ MarkOk(1) \/ MarkFail(1)

SpecCycle == InitBacklog /\ [][CycleNext]_vars

\* One relay instance over a backlog in which the rows of big are oversized;
\* the ticker keeps firing.
SizedRows(n, big) ==
    [ i \in 1 .. n |->
        LET in == CHOOSE e \in EventInputs : e[1] = "agg-1"
        IN  OutboxRow(i, in[1], in[2], IF i \in big THEN Oversized ELSE in[3], i) ]

InitSized ==
    \E n \in 1 .. MaxEvents + 1 : \E big \in SUBSET (1 .. n) :
        InitWith(SizedRows(n, big), { 0 })

StarveNext ==
    \/ Poll(1)
    \/ PublishWithinLimit(1) \/ PublishTooLarge(1) \/ PublishFail(1)
    \/ MarkOk(1)

SpecStarve == InitSized /\ [][StarveNext]_vars /\ WF_vars(StarveNext)

\* One dispatcher over topics that also carry invalid messages, with fetch
\* errors; the loop keeps taking its steps.
DispatchNext ==
    \/ PublishResourceEvent \/ PublishInvalidEvent
    \/ StartConsumer(1) \/ FetchMessage(1) \/ FetchFail(1) \/ RejectInvalid(1)
    \/ UpsertOk(1) \/ CompleteOk(1) \/ CompletedEventOk(1) \/ CommitTaskOk(1)
    \/ CommitMessages(1)

SpecDispatch == InitConsumer /\ [][DispatchNext]_vars /\ WF_vars(DispatchNext)

\* The gRPC service shuts down: its relay loop and its consumer loop share the
\* context main cancels.  The loops keep taking their steps (the ticker fires,
\* the runtime schedules both goroutines).  The outbox holds the events of
\* one resource, created and then updated.
ResourceHistory(n) ==
    [ i \in 1 .. n |->
        CHOOSE in \in ResourceEvents :
            in[2] = IF i = 1 THEN "resource.created" ELSE "resource.updated" ]

InitShutdown ==
    \E n \in 1 .. MaxEvents : InitWith(PendingRows(n, ResourceHistory(n)), { 0 })

ShutdownNext ==
    \/ Poll(1) \/ PublishOk(1) \/ MarkOk(1)
    \/ StartConsumer(1) \/ FetchMessage(1) \/ UpsertOk(1) \/ CompleteOk(1)
    \/ CompletedEventOk(1) \/ CommitTaskOk(1) \/ CommitMessages(1)
    \/ Cancel
    \/ PublishCancelled(1) \/ MarkCancelled(1) \/ RelayExit(1)
    \/ HandleCancelled(1) \/ CommitMessagesCancelled(1) \/ ConsumerExit(1)

SpecShutdown == InitShutdown /\ [][ShutdownNext]_vars /\ WF_vars(ShutdownNext)

\* ------------------------------------------------- claims: the transaction

\* The committed outbox rows transaction t inserted.
RowsFrom(t) == { i \in DOMAIN outbox : origin[outbox[i].id] = t }

\* C1: in every committed state the outbox rows and the committed business
\* mutations correspond one to one, and a transaction that failed at any
\* step has left neither a business mutation nor an outbox row.
C1_OutboxAtomicWithMutation ==
    /\ \A i \in DOMAIN outbox :
         outbox[i].id \in DOMAIN origin /\ origin[outbox[i].id] \in bizCommitted
    /\ \A t \in bizCommitted : Cardinality(RowsFrom(t)) = 1
    /\ \A a \in aborted : a[1] \notin bizCommitted /\ RowsFrom(a[1]) = {}

\* A transaction was rolled back because its outbox insert failed, after its
\* business statement had succeeded, and another one has committed a business
\* mutation with its outbox row.
C1_Witness ==
    /\ \E a \in aborted : a[2] = "outbox"
    /\ \E t \in bizCommitted : Cardinality(RowsFrom(t)) = 1

\* The success answers: 201, 200 and 204 of the REST handlers, a
\* ProcessTaskResponse with a nil error.
Success(resp) ==
    IF resp.op = "ProcessTask" THEN resp.code = GrpcOK ELSE resp.code \in { 200, 201, 204 }

\* C20: the caller of a business mutation is answered with success exactly
\* when the transaction with the mutation and its outbox record committed,
\* and with an error when it did not, whether or not a relay has published
\* or marked the record by then.
C20_CallerSeesCommit ==
    /\ \A t \in DOMAIN responses :
         Success(responses[t]) <=> ( t \in bizCommitted /\ Cardinality(RowsFrom(t)) = 1 )
    /\ \A t \in bizCommitted : t \in DOMAIN responses
    /\ \A a \in aborted : a[1] \in DOMAIN responses /\ ~Success(responses[a[1]])

\* One caller was answered with an error because tx.Commit failed; another
\* was answered with success, and the relay has published and marked the
\* record of that one.
C20_Witness ==
    /\ \E a \in aborted : a[2] = "commit" /\ ~Success(responses[a[1]])
    /\ \E t \in bizCommitted :
         /\ Success(responses[t])
         /\ \E i \in RowsFrom(t) : outbox[i].processed_at # NULL

\* ------------------------------------------------------- claims: the relay

Published(id) == \E k \in DOMAIN pubLog : pubLog[k] = id

TimesPublished(id) == Cardinality({ k \in DOMAIN pubLog : pubLog[k] = id })

Marked(id) == id \in RowIds(outbox) /\ RowOf(outbox, id).processed_at # NULL

\* The ids of the events relay r holds from its last SELECT.
Selected(r) == { relay[r].events[k].ID : k \in DOMAIN relay[r].events }

\* The event relay r is publishing or marking.
Current(r) == relay[r].events[relay[r].idx].ID

\* C2: whatever crashes and restarts fall between an acknowledged publish and
\* its mark, every pending row is eventually published to the broker.
\* (Every row is pending and unpublished when the relays start.)
C2_PendingEventuallyPublished ==
    <>(\A i \in DOMAIN outbox : Published(outbox[i].id))

\* A relay died between an acknowledged publish and its mark, and every row
\* of an outbox of several rows has been published since.
C2_Witness ==
    /\ crashedAt # {}
    /\ Len(outbox) >= 2
    /\ \A i \in DOMAIN outbox : Published(outbox[i].id) /\ outbox[i].processed_at # NULL

\* C3: a row has processed_at set only if a publish of its event was
\* acknowledged by the broker before; a crash anywhere in the cycle never
\* leaves a row marked whose event did not reach the broker.
C3_MarkedOnlyAfterPublish ==
    \A i \in DOMAIN outbox :
        outbox[i].processed_at # NULL => Published(outbox[i].id)

\* A relay died between the acknowledged publish and the mark; the event was
\* published again after the restart and is now marked.
C3_Witness ==
    \E id \in crashedAt : TimesPublished(id) >= 2 /\ Marked(id)

\* C4: an event whose publish failed is still a row of the outbox; as long as
\* no publish of it succeeded the row is pending and a poll that runs now
\* selects it.
C4_FailedStaysPending ==
    \A id \in failed :
        /\ id \in RowIds(outbox)
        /\ ~Published(id) =>
              /\ RowOf(outbox, id).processed_at = NULL
              /\ \E k \in DOMAIN SelectPending(outbox) : SelectPending(outbox)[k].ID = id

\* The publish of an event failed, the event is still unpublished and
\* pending, and a relay is about to publish it from a batch it polled after
\* the failure.
C4_Witness ==
    \E r \in Relays :
        /\ relay[r].pc = "publish"
        /\ Current(r) \in relay[r].retry
        /\ ~Published(Current(r))
        /\ ~Marked(Current(r))

\* C5 (as claimed): while nothing has failed, no event is held by two relay
\* instances at once and no event is published more than once.
C5_NoDoubleSelect ==
    faults = 0 =>
        /\ \A r1, r2 \in Relays : r1 # r2 => Selected(r1) \cap Selected(r2) = {}
        /\ \A id \in Ids : TimesPublished(id) <= 1

\* C6: a row whose processed_at is set keeps it set in every step, and a poll
\* taken in that step does not select the row.
C6_PublishedIsTerminal ==
    [][ \A i \in DOMAIN outbox :
          outbox[i].processed_at # NULL =>
             /\ i \in DOMAIN outbox'
             /\ outbox'[i].id = outbox[i].id
             /\ outbox'[i].processed_at # NULL
             /\ \A r \in Relays :
                  (relay[r].pc = "idle" /\ relay'[r].pc = "publish") =>
                     \A k \in DOMAIN relay'[r].events :
                        relay'[r].events[k].ID # outbox[i].id ]_vars

\* The oldest row is marked and a relay holds a batch that starts with the
\* second row: with the first row pending the query would have returned it
\* first, so this batch was polled after the mark.
C6_Witness ==
    /\ Marked(1)
    /\ \E r \in Relays :
         /\ relay[r].pc = "publish"
         /\ relay[r].events[1].ID = 2

\* C7 (as claimed): a mark changes a row only while its processed_at is NULL;
\* once set, processed_at is never written again.
C7_MarkWritesOnce ==
    [][ \A i \in DOMAIN outbox :
          outbox[i].processed_at # NULL => outbox'[i] = outbox[i] ]_vars

\* C8: an event whose publish failed and which a later cycle published and
\* marked has exactly one row, with processed_at set, and the row went from
\* NULL to non-NULL exactly once.
C8_RetryMarksOnce ==
    \A id \in retriedOk :
        /\ Cardinality({ i \in DOMAIN outbox : outbox[i].id = id }) = 1
        /\ RowOf(outbox, id).processed_at # NULL
        /\ transitions[id] = 1

\* The publish of an event failed, a retry was acknowledged once, and the
\* event was marked.
C8_Witness ==
    \E id \in retriedOk : id \in failed /\ TimesPublished(id) = 1 /\ Marked(id)

\* ------------------------------------------------- claims: the Kafka message

\* C9: every message on the broker was published for an outbox row and has
\* topic = the row's event_type, key = its aggregate_id, value = its payload
\* and the headers event_id = its id, event_type = its event_type.
C9_MessageEnvelope ==
    /\ Len(broker) = Len(pubLog)
    /\ \A k \in DOMAIN broker :
         /\ pubLog[k] \in RowIds(outbox)
         /\ LET row == RowOf(outbox, pubLog[k])
                m == broker[k]
            IN  /\ m.topic = row.event_type
                /\ m.message.Key = row.aggregate_id
                /\ m.message.Value = row.payload
                /\ m.message.Headers.event_id = row.id
                /\ m.message.Headers.event_type = row.event_type

\* The broker holds messages of two events of different aggregates and types.
C9_Witness ==
    \E k1, k2 \in DOMAIN broker :
        /\ broker[k1].topic # broker[k2].topic
        /\ broker[k1].message.Key # broker[k2].message.Key
        /\ broker[k1].message.Headers.event_id # broker[k2].message.Headers.event_id

Committed == { d \in DOMAIN deliveries : deliveries[d].state = "committed" }

\* The calls of processKafkaMessage that returned an error.
Failed == { d \in DOMAIN deliveries : deliveries[d].state = "failed" }

SameMessage(d1, d2) ==
    deliveries[d1].tp = deliveries[d2].tp /\ deliveries[d1].off = deliveries[d2].off

\* The group's committed offset of the partition is past the message of d.
Covered(d) ==
    /\ committed[deliveries[d].tp] # NoOffset
    /\ deliveries[d].off < committed[deliveries[d].tp]

\* C11 (as claimed): the committed offset never covers a message whose effect
\* is not durable: a message whose handler returned an error and whose offset
\* is below the committed offset has been handled by a call that committed.
C11_CommittedOffsetIsDurable ==
    \A d \in Failed :
        Covered(d) => \E d2 \in Committed : SameMessage(d, d2)

\* C12 (as claimed): a message whose handler failed is not lost when a later
\* message of its partition is committed: until it is delivered again, either
\* a running member's reader still has it ahead or a restart at the committed
\* offset returns it.
C12_FailedIsRedelivered ==
    \A d \in Failed :
        ( /\ committed[deliveries[d].tp] # NoOffset
          /\ ~\E d2 \in DOMAIN deliveries : d2 > d /\ SameMessage(d, d2) )
        => \/ committed[deliveries[d].tp] <= deliveries[d].off
           \/ \E c \in Consumers :
                 /\ consumer[c].pc # "down"
                 /\ Assigned(c, deliveries[d].tp)
                 /\ consumer[c].pos[deliveries[d].tp] <= deliveries[d].off

\* C13: the content of the task row (id, resource_id, action, status, result)
\* right after a delivery of a message is the same for every delivery of that
\* message, whatever was handled in between.
C13_DeliveriesAgree ==
    \A d1, d2 \in Committed :
        deliveries[d1].event = deliveries[d2].event
        => deliveries[d1].after = deliveries[d2].after

\* A message was handled and committed twice, and a message of another event
\* was handled in between.
C13_Witness ==
    \E d1, d2, d3 \in Committed :
        /\ d1 < d3 /\ d3 < d2
        /\ deliveries[d1].event = deliveries[d2].event
        /\ deliveries[d3].event # deliveries[d1].event

\* The task rows of the resource r.
TaskRowsOf(r) == { id \in DOMAIN tasks : tasks[id].resource_id = r }

\* C14: after a message was handled, also twice and by two instances at the
\* same time, the tasks table holds exactly one row for its resource, the row
\* has the derived id and its status is 'completed'.
C14_OneCompletedRow ==
    \A d \in Committed :
        LET r == deliveries[d].after.resource_id
        IN  /\ TaskRowsOf(r) = { TaskID(r) }
            /\ tasks[TaskID(r)].status = "completed"

\* Two instances handled the same message at the same time (the second
\* fetched it while the first had not committed its offset) and both
\* committed their transaction.
C14_Witness ==
    \E d1, d2 \in Committed : d1 \in deliveries[d2].during

\* A call of processKafkaMessage by c commits in this step, for a message
\* some earlier call has already handled and committed.
CommitsDuplicate(c) ==
    /\ consumer[c].pc = "commit"
    /\ consumer'[c].pc = "ack"
    /\ \E d \in Committed : /\ d # consumer[c].d
                            /\ deliveries[d].event = deliveries[consumer[c].d].event

\* C15 (as claimed): handling a message again whose task row is completed is
\* a no-op: the task rows keep their values and no outbox record is added.
C15_DuplicateIsNoOp ==
    [][ \A c \in Consumers :
          CommitsDuplicate(c) => tasks' = tasks /\ outbox' = outbox ]_vars

\* C16 (as claimed): messages of two different event types map to two
\* different task rows, also when they are about the same resource; two
\* deliveries of one message map to the same row.
C16_IdentityPerEventType ==
    \A d1, d2 \in Committed :
        /\ deliveries[d1].topic # deliveries[d2].topic
           => deliveries[d1].after.id # deliveries[d2].after.id
        /\ deliveries[d1].event = deliveries[d2].event
           => deliveries[d1].after.id = deliveries[d2].after.id

\* C17 (as claimed): handling an already handled message again, after other
\* messages about the same resource were handled, does not change the content
\* of any task row.
C17_RedeliveryKeepsState ==
    [][ \A c \in Consumers :
          CommitsDuplicate(c) =>
             /\ DOMAIN tasks' = DOMAIN tasks
             /\ \A id \in DOMAIN tasks : Content(tasks'[id]) = Content(tasks[id]) ]_vars

\* The committed calls of processKafkaMessage that wrote the task row id.
WritersOf(id) == { d \in Committed : deliveries[d].after.id = id }

\* C19: the task upsert, the update to 'completed' and the task.completed
\* outbox record are persisted together or not at all: every call that
\* committed has its completed task row and exactly its outbox record, and
\* nothing in the tasks table or the outbox comes from a call that failed.
C19_ProcessorAtomic ==
    /\ \A d \in Committed :
         /\ deliveries[d].after.id \in DOMAIN tasks
         /\ Cardinality({ i \in DOMAIN outbox : outbox[i].id = deliveries[d].ob }) = 1
         /\ RowOf(outbox, deliveries[d].ob).event_type = "task.completed"
         /\ RowOf(outbox, deliveries[d].ob).aggregate_id = deliveries[d].after.id
    /\ \A i \in DOMAIN outbox : \E d \in Committed : deliveries[d].ob = outbox[i].id
    /\ \A id \in DOMAIN tasks :
         /\ \E d \in WritersOf(id) : Content(tasks[id]) = deliveries[d].after
         /\ tasks[id].status = "completed"

\* A call failed at tx.Commit, after its three statements had succeeded, and
\* left nothing; another call committed its task row and its outbox record.
C19_Witness ==
    /\ \E d \in Failed : deliveries[d].step = "commit"
    /\ Committed # {}
    /\ Len(outbox) = Cardinality(Committed)

\* ---------------------------------------------------- claims: end to end

\* The task.completed records the consumer committed for the message of the
\* outbox event e.
CompletionRecordsOf(e) ==
    { j \in DOMAIN outbox :
        /\ outbox[j].event_type = "task.completed"
        /\ \E d \in Committed : deliveries[d].event = e /\ deliveries[d].ob = outbox[j].id }

\* C18 (as claimed): a resource event the relay has published and marked is
\* recorded once by the consumer, also when the broker delivers its message
\* again because the offset was not committed: it has one task row and one
\* task.completed record.
C18_OneLogicalEffect ==
    \A i \in DOMAIN outbox :
        ( outbox[i].event_type \in GroupTopics /\ outbox[i].processed_at # NULL )
        => /\ Published(outbox[i].id)
           /\ Cardinality(TaskRowsOf(ResourceID(outbox[i].payload))) <= 1
           /\ Cardinality(CompletionRecordsOf(outbox[i].id)) <= 1

\* ---------------------------------------------------- claims: the shutdown

\* C21: after the context is cancelled, the relay loop and the dispatcher
\* loop each eventually exit.
C21_LoopsExitAfterCancel ==
    cancelled ~> (relay[1].pc = "exited" /\ consumer[1].pc = "exited")

\* Both loops have exited, the relay out of a cycle that had published and the
\* dispatcher after a message it had fetched.
C21_Witness ==
    /\ cancelled
    /\ relay[1].pc = "exited"
    /\ consumer[1].pc = "exited"
    /\ Len(pubLog) > 0
    /\ Len(deliveries) > 0

\* C22: a shutdown does not cut a unit in flight: once the relay has exited,
\* every record it published is marked, and once the dispatcher has exited,
\* the offset of every message whose handler committed is committed.
C22_ShutdownFinishesUnit ==
    /\ relay[1].pc = "exited" =>
         \A id \in RowIds(outbox) : Published(id) => Marked(id)
    /\ consumer[1].pc = "exited" =>
         \A d \in Committed : Covered(d)

\* --------------------------------------------------- claims: the dispatcher

\* The calls of processKafkaMessage that rejected the payload.
Rejected == { d \in DOMAIN deliveries : deliveries[d].state = "rejected" }

\* C23: a fetch error is not fatal: every message at or after the reader's
\* position in an assigned partition is eventually handed to
\* processKafkaMessage, fetch errors notwithstanding.
C23_FetchErrorNotFatal ==
    \A tp \in TopicPartitions : \A o \in 0 .. MaxEvents :
        ( /\ consumer[1].pc \notin { "down", "exited" }
          /\ Assigned(1, tp)
          /\ consumer[1].pos[tp] <= o
          /\ o < LogEnd(tp) )
        ~> ( \E d \in DOMAIN deliveries :
                deliveries[d].tp = tp /\ deliveries[d].off = o )

\* The first message the dispatcher fetched, after a fetch error (the loop
\* has not been back at its fetch since), is handled and about to be
\* acknowledged.
C23_Witness ==
    /\ faults > 0
    /\ Len(deliveries) = 1
    /\ deliveries[1].state = "committed"
    /\ consumer[1].pc = "ack"

\* C24: a message with an invalid payload is dead-lettered or skipped and
\* committed: once the dispatcher is back at its fetch, the group's offset is
\* past every message it rejected.
C24_InvalidIsSettled ==
    consumer[1].pc = "fetch" => \A d \in Rejected : Covered(d)

\* ------------------------------------------------ claims: the REST handlers

\* The transaction of handler h commits in this step and the handler answers
\* with its success status.
Succeeds(h) ==
    /\ txn[h].pc = "commit"
    /\ txn[h].tx \in DOMAIN responses' \ DOMAIN responses
    /\ Success(responses'[txn[h].tx])

\* C25: each successful create, update or delete of the REST service writes
\* exactly one outbox record, whose aggregate_id is the resource id and whose
\* event_type is resource.created, resource.updated or resource.deleted.
C25_OneRecordPerOperation ==
    [][ \A h \in Handlers :
          Succeeds(h) /\ txn[h].op # "ProcessTask" =>
            /\ Len(outbox') = Len(outbox) + 1
            /\ outbox'[Len(outbox')].aggregate_id = txn[h].id
            /\ outbox'[Len(outbox')].event_type =
                 ( CASE txn[h].op = "createResource" -> "resource.created"
                     [] txn[h].op = "updateResource" -> "resource.updated"
                     [] txn[h].op = "deleteResource" -> "resource.deleted" )
            /\ SubSeq(outbox', 1, Len(outbox)) = outbox ]_vars

\* A create and a delete of the resource it created have both succeeded and
\* each has left its record.
C25_Witness ==
    \E t1, t2 \in DOMAIN responses :
        /\ responses[t1] = [ op |-> "createResource", code |-> 201 ]
        /\ responses[t2] = [ op |-> "deleteResource", code |-> 204 ]
        /\ \E i, j \in DOMAIN outbox :
             /\ origin[outbox[i].id] = t1 /\ outbox[i].event_type = "resource.created"
             /\ origin[outbox[j].id] = t2 /\ outbox[j].event_type = "resource.deleted"
             /\ outbox[i].aggregate_id = outbox[j].aggregate_id

\* ----------------------------------------------------- claims: the relay

\* C26: no relay step deletes an outbox record or changes its id,
\* aggregate_id, event_type, payload or created_at; processed_at is the only
\* field a relay step changes.
C26_RelayChangesOnlyProcessedAt ==
    [][ /\ Len(outbox') = Len(outbox)
        /\ \A i \in DOMAIN outbox :
             outbox'[i] = [ outbox[i] EXCEPT !.processed_at = outbox'[i].processed_at ]
      ]_vars

\* The relays have marked one row, failed to publish another and lost a
\* cycle in a crash; both rows are in the outbox.
C26_Witness ==
    \E i, j \in DOMAIN outbox :
        /\ outbox[i].processed_at # NULL
        /\ outbox[j].processed_at = NULL
        /\ (outbox[j].id \in failed \/ outbox[j].id \in crashedAt)

\* The row of the outbox an event was scanned from.
RowOfEvent(event) == RowOf(outbox, event.ID)

\* C27: a poll selects only pending records, at most the batch limit, the
\* oldest pending ones by created_at, in ascending created_at order; within
\* the cycle the relay takes them in that order, one after the other.
C27_PollSelectsOldestPending ==
    [][ /\ ( relay[1].pc = "idle" /\ relay'[1].pc = "publish" ) =>
             LET events == relay'[1].events
                 chosen == { events[k].ID : k \in DOMAIN events }
                 pending == { outbox[i].id : i \in Pending(outbox) }
             IN  /\ relay'[1].idx = 1
                 /\ chosen \subseteq pending
                 /\ Cardinality(chosen) = Len(events)
                 /\ Len(events) <= BatchLimit
                 /\ Len(events) = BatchLimit \/ chosen = pending
                 /\ \A k, l \in DOMAIN events :
                      k < l => events[k].CreatedAt <= events[l].CreatedAt
                 /\ \A k \in DOMAIN events : \A id \in pending \ chosen :
                      events[k].CreatedAt <= RowOf(outbox, id).created_at
                 /\ \A k \in DOMAIN events : events[k] = ScanEvent(RowOfEvent(events[k]))
        /\ relay[1].pc # "idle" =>
             \/ /\ relay'[1].events = relay[1].events
                /\ relay'[1].idx \in { relay[1].idx, relay[1].idx + 1 }
             \/ /\ relay'[1] = IdleRelay
                /\ relay[1].idx = Len(relay[1].events)
      ]_vars

\* A poll over three pending rows has left the newest one out, and the two
\* it selected are not in table order.
C27_Witness ==
    /\ relay[1].pc = "publish"
    /\ Len(relay[1].events) = BatchLimit
    /\ Cardinality(Pending(outbox)) > BatchLimit
    /\ relay[1].events[1].ID > relay[1].events[2].ID

\* The place of the first successful publish of an event in the order of
\* the broker's acknowledgements.
FirstPublished(id) == CHOOSE k \in DOMAIN pubLog : pubLog[k] = id /\ \A j \in 1 .. k - 1 : pubLog[j] # id

\* C28 (as claimed): of two records of one aggregate, the one with the
\* earlier created_at is successfully published first.
C28_AggregateOrderKept ==
    \A i, j \in DOMAIN outbox :
        ( /\ outbox[i].aggregate_id = outbox[j].aggregate_id
          /\ outbox[i].created_at < outbox[j].created_at
          /\ Published(outbox[j].id) )
        => /\ Published(outbox[i].id)
           /\ FirstPublished(outbox[i].id) < FirstPublished(outbox[j].id)

\* The events the relay has selected and not handled yet in its cycle.
Remaining(r) ==
    { relay[r].events[k].ID :
        k \in { n \in DOMAIN relay[r].events :
                  \/ n > relay[r].idx
                  \/ n = relay[r].idx /\ relay[r].pc = "publish" } }

\* C29: one relay instance, no crash, every mark succeeding: no record is
\* successfully published twice, a marked record has been published once, and
\* a marked record is not among the records the instance has yet to publish.
C29_SingleRelayPublishesOnce ==
    \A id \in RowIds(outbox) :
        /\ TimesPublished(id) <= 1
        /\ Marked(id) => TimesPublished(id) = 1
        /\ Marked(id) => id \notin Remaining(1)

\* A backlog larger than a batch is published and marked, each record once,
\* over several cycles, one of them after its first publish had failed.
C29_Witness ==
    /\ Len(outbox) > BatchLimit
    /\ \A id \in RowIds(outbox) : Marked(id) /\ TimesPublished(id) = 1
    /\ failed # {}
    /\ relay[1].pc = "idle"

\* Handler h is about to run the UPDATE or DELETE of a resource that has no
\* committed row.
ExecOnMissing(h) ==
    /\ txn[h].pc = "exec"
    /\ txn[h].op \in { "updateResource", "deleteResource" }
    /\ txn[h].id \notin DOMAIN resources

\* C30: an update or delete of a resource that does not exist is answered
\* with 404 (with 500 when the statement itself fails) and ends the
\* transaction there: no resource row changes, no outbox record is written.
C30_NotFoundLeavesStore ==
    [][ \A h \in Handlers :
          ExecOnMissing(h) /\ txn'[h] # txn[h] =>
            /\ txn'[h] = NoTxn
            /\ txn[h].tx \in DOMAIN responses'
            /\ \/ responses'[txn[h].tx].code = 404
               \/ /\ responses'[txn[h].tx].code = 500
                  /\ << txn[h].tx, "exec" >> \in aborted'
            /\ resources' = resources
            /\ outbox' = outbox
            /\ RowsFrom(txn[h].tx) = {}
      ]_vars

\* A resource was created, and an update or delete of an id that has no row
\* was answered with 404.
C30_Witness ==
    /\ DOMAIN resources # {}
    /\ Len(outbox) = 1
    /\ \E a \in aborted :
         /\ a[2] = "notfound"
         /\ responses[a[1]].code = 404
         /\ responses[a[1]].op \in { "updateResource", "deleteResource" }

\* ------------------------------------------------- claims: the relay cycle

\* C31: a publish error or a mark error on one record does not stop the
\* cycle: the relay goes on with the next record of the batch, the cycle ends
\* only after the last record, and processOutboxEvents then returns nil.
C31_FailureDoesNotStopCycle ==
    [][ ( relay[1].pc \in { "publish", "mark" } /\ relay'[1] # relay[1] ) =>
          LET rs == relay[1]
              failure == faults' = faults + 1
          IN  /\ failure /\ rs.idx < Len(rs.events) =>
                   /\ relay'[1].pc = "publish"
                   /\ relay'[1].events = rs.events
                   /\ relay'[1].idx = rs.idx + 1
              /\ relay'[1].pc = "idle" =>
                   /\ rs.idx = Len(rs.events)
                   /\ cycleResult' = "nil"
              /\ relay'[1].pc # "idle" =>
                   /\ relay'[1].events = rs.events
                   /\ relay'[1].idx \in { rs.idx, rs.idx + 1 }
      ]_vars

\* A cycle over two records is over: the publish of the older one failed,
\* the newer one was published after it, and the call returned nil.
C31_Witness ==
    /\ relay[1].pc = "idle"
    /\ cycleResult = "nil"
    /\ faults = 1
    /\ Len(outbox) = 2
    /\ \E i, j \in DOMAIN outbox :
         /\ outbox[i].created_at < outbox[j].created_at
         /\ failed = { outbox[i].id }
         /\ pubLog = << outbox[j].id >>

\* C32 (as claimed): every pending record whose publish can succeed is
\* eventually published, whatever the number of older records whose publish
\* fails every time.
C32_NoStarvation ==
    \A i \in 1 .. MaxEvents + 1 :
        ( i \in DOMAIN outbox /\ outbox[i].payload # Oversized ) ~> Published(i)

\* ---------------------------------------------------- claims: the task rows

\* C33: no committed task row of the consumer has status 'processing': every
\* committed 'auto-' row has status 'completed' and the result of the
\* completion.
C33_CommittedTaskIsCompleted ==
    \A id \in DOMAIN tasks :
        id[1] = "auto" =>
            /\ tasks[id].status = "completed"
            /\ tasks[id].result =
                 CompletedResult(tasks[id].action, tasks[id].resource_id)

\* The committed row of a task is 'completed' while a transaction that
\* handles another event of the resource has set it to 'processing' and has
\* not committed.
C33_Witness ==
    \E c \in Consumers :
        /\ consumer[c].pc = "complete"
        /\ consumer[c].row.status = "processing"
        /\ consumer[c].row.id \in DOMAIN tasks
        /\ tasks[consumer[c].row.id].status = "completed"

\* ------------------------------------------- claims: the consumer's start

\* processKafkaMessage has been called for the message at offset off of tp.
Delivered(tp, off) ==
    \E d \in DOMAIN deliveries : deliveries[d].tp = tp /\ deliveries[d].off = off

\* C34 (as claimed): every message of a subscribed topic is handled by the
\* group, those published before its first start included: the running
\* reader has no message behind its position that was never handed to
\* processKafkaMessage.
C34_EveryMessageHandled ==
    consumer[1].pc \notin { "down", "exited" } =>
        \A tp \in TopicPartitions :
            Assigned(1, tp) =>
                \A off \in 0 .. LogEnd(tp) - 1 :
                    off < consumer[1].pos[tp] => Delivered(tp, off)

====
